---------------------------- MODULE Spec2Model ----------------------------
(***************************************************************************)
(* Model of the RCS bedtime-story relay (src/src/server.js).               *)
(*                                                                         *)
(* The Express application serves GET /send-story-request,                 *)
(* POST /webhooks/status and POST /webhooks/inbound.  Every request is     *)
(* handled in a connection slot; the handler of a request advances from    *)
(* one await point to the next.  Under Spec the caller delivers a request  *)
(* when the previous one is answered and closed, with the full range of    *)
(* payloads.  Under SpecConc requests are delivered while others are in    *)
(* flight and their handlers interleave at the awaits; LiveSpec adds the   *)
(* progress of the event loop to SpecConc.                                 *)
(*                                                                         *)
(* JavaScript strings that the code inspects character by character        *)
(* (toLowerCase) or concatenates are sequences of one-character strings.   *)
(* Values the code only compares with === or passes through (channel,      *)
(* message_type, reply.id, reply.title, from) are TLA+ strings, with       *)
(* Absent standing for a field that is not in the JSON body (undefined).   *)
(***************************************************************************)
EXTENDS Integers, Sequences, FiniteSets

(***************************************************************************)
(* Bounds of the model.                                                    *)
(***************************************************************************)
\* number of connection slots, i.e. requests that can be in flight at once
MaxInFlight == 2
\* longest story text the generation backend returns
MaxStoryLen == 1
\* number of requests delivered to the server in one behaviour
MaxRequests == 2

Slots == 1..MaxInFlight

(***************************************************************************)
(* Configuration read from the environment (server.js:13, 155, 201).       *)
(***************************************************************************)
recipientNumber == "+15550100"
RCS_SENDER_ID == "StoryAgent"

Absent == "<undefined>"

(***************************************************************************)
(* String literals of the code, as character sequences.                    *)
(***************************************************************************)
TriggerPhrase ==
  <<"g", "e", "n", "e", "r", "a", "t", "e", " ", "s", "t", "o", "r", "y">>

EchoPrefix ==
  <<"I", " ", "r", "e", "c", "e", "i", "v", "e", "d", " ", "y", "o", "u",
    "r", " ", "m", "e", "s", "s", "a", "g", "e", ":", " ">>

EchoSuffix ==
  <<".", " ", "T", "a", "p", " ", "'", "G", "e", "n", "e", "r", "a", "t",
    "e", " ", "S", "t", "o", "r", "y", "'", " ", "f", "o", "r", " ", "a",
    " ", "t", "a", "l", "e", "!">>

FallbackTextMut ==
  <<"O", "o", "p", "s", "!">>

FallbackText ==
  <<"O", "o", "p", "s", "!", " ", "I", " ", "c", "o", "u", "l", "d", "n",
    "'", "t", " ", "g", "e", "n", "e", "r", "a", "t", "e", " ", "a", " ",
    "s", "t", "o", "r", "y", " ", "r", "i", "g", "h", "t", " ", "n", "o",
    "w", ".", " ", "P", "l", "e", "a", "s", "e", " ", "t", "r", "y", " ",
    "a", "g", "a", "i", "n", " ", "l", "a", "t", "e", "r", ".">>

StoryPromptText ==
  "Generate a short, calming bedtime story for children (approx. 100-150 words)."

(***************************************************************************)
(* String.prototype.toLowerCase on the letters A-Z; every other character  *)
(* of the model's alphabet is left as it is.                               *)
(***************************************************************************)
UpperChars ==
  <<"A", "B", "C", "D", "E", "F", "G", "H", "I", "J", "K", "L", "M", "N",
    "O", "P", "Q", "R", "S", "T", "U", "V", "W", "X", "Y", "Z">>

LowerChars ==
  <<"a", "b", "c", "d", "e", "f", "g", "h", "i", "j", "k", "l", "m", "n",
    "o", "p", "q", "r", "s", "t", "u", "v", "w", "x", "y", "z">>

LowerOfChar(c) ==
  IF \E i \in DOMAIN UpperChars : UpperChars[i] = c
    THEN LowerChars[CHOOSE i \in DOMAIN UpperChars : UpperChars[i] = c]
    ELSE c

UpperOfChar(c) ==
  IF \E i \in DOMAIN LowerChars : LowerChars[i] = c
    THEN UpperChars[CHOOSE i \in DOMAIN LowerChars : LowerChars[i] = c]
    ELSE c

toLowerCaseMut(s) == s

toLowerCase(s) == [i \in 1..Len(s) |-> LowerOfChar(s[i])]

(***************************************************************************)
(* JavaScript values of the body's text field: a JSON body can carry a     *)
(* string, a number, or no text at all.                                    *)
(***************************************************************************)
Undefined == [t |-> "undefined", s |-> <<>>, n |-> 0]
Str(s) == [t |-> "string", s |-> s, n |-> 0]
Num(n) == [t |-> "number", s |-> <<>>, n |-> n]

\* ToBoolean, as applied by the && of server.js:105
Truthy(v) ==
  CASE v.t = "string" -> v.s # <<>>
    [] v.t = "number" -> v.n # 0
    [] OTHER -> FALSE

DigitChars == <<"0", "1", "2", "3", "4", "5", "6", "7", "8", "9">>

RECURSIVE NatToString(_)
NatToString(n) ==
  IF n < 10 THEN <<DigitChars[n + 1]>>
  ELSE NatToString(n \div 10) \o <<DigitChars[(n % 10) + 1]>>

UndefinedString ==
  <<"u", "n", "d", "e", "f", "i", "n", "e", "d">>

\* ToString, as applied by the + of server.js:121-123
JsToString(v) ==
  CASE v.t = "string" -> v.s
    [] v.t = "number" -> NatToString(v.n)
    [] OTHER -> UndefinedString


(***************************************************************************)
(* The inbound payload handler's tests (server.js:82, 86, 104, 105).       *)
(***************************************************************************)
\* server.js:82
ReplyBranch(body) ==
  body.channel = "rcs" /\ body.message_type = "reply" /\ body.reply.present

TextBranchMut(body) ==
  body.message_type = "text"

\* server.js:104
TextBranch(body) ==
  body.channel = "rcs" /\ body.message_type = "text"

IsReplyTriggerMut(reply) ==
  reply.id = "GENERATE_STORY_REQUEST" /\ reply.title = "Generate Story"

\* server.js:86
IsReplyTrigger(reply) ==
  reply.id = "GENERATE_STORY_REQUEST" \/ reply.title = "Generate Story"

\* server.js:105: calling toLowerCase on a value that is not a string
\* raises a TypeError
ToLowerCaseThrows(text) ==
  Truthy(text) /\ text.t # "string"

IsTextTriggerMut(text) ==
  Truthy(text)

\* server.js:105, for a text on which the test does not throw
IsTextTrigger(text) ==
  Truthy(text) /\ toLowerCase(text.s) = TriggerPhrase

EchoBodyMut(text) ==
  EchoPrefix \o toLowerCase(JsToString(text)) \o EchoSuffix

\* server.js:121-123
EchoBody(text) ==
  EchoPrefix \o JsToString(text) \o EchoSuffix

(***************************************************************************)
(* Outbound messages (server.js:153-183, 199-203).                         *)
(***************************************************************************)
RCSText(to, text) ==
  [channel |-> "rcs", message_type |-> "text",
   to |-> to, from |-> RCS_SENDER_ID, text |-> text]

StorySuggestionMut ==
  [text |-> "Generate Story", postbackData |-> "GENERATE_STORY"]

\* server.js:172-175
StorySuggestion ==
  [text |-> "Generate Story", postbackData |-> "GENERATE_STORY_REQUEST"]

RCSCustom(to) ==
  [channel |-> "rcs", message_type |-> "custom",
   to |-> to, from |-> RCS_SENDER_ID,
   custom |->
     [cardOrientation |-> "VERTICAL",
      title |-> "Bedtime Story Generator",
      description |-> "Tap \"Generate Story\" for a magical tale!",
      mediaHeight |-> "MEDIUM",
      fileUrl |-> "https://cdn-icons-png.flaticon.com/512/2917/2917637.png",
      suggestions |-> <<[reply |-> StorySuggestion]>>]]

(***************************************************************************)
(* verifyWebhookSignature (server.js:29-58).  The authorization header of  *)
(* a request is one of: no header at all, a header without a token, a      *)
(* token that verifySignature rejects, a token on which verifySignature    *)
(* throws, a token that verifySignature accepts.                           *)
(***************************************************************************)
AuthHeaders == {"missing", "no_token", "bad_token", "throwing_token", "good_token"}

VerifyOutcomeMut(auth) ==
  CASE auth = "missing" -> "JWT verification failed."
    [] auth = "no_token" -> "No JWT token provided."
    [] auth = "bad_token" -> "Invalid JWT signature."
    [] OTHER -> "next"

\* "next" when next() is called (server.js:50), else the detail of the 401
VerifyOutcome(auth) ==
  CASE auth = "missing" -> "JWT verification failed."
    [] auth = "no_token" -> "No JWT token provided."
    [] auth = "bad_token" -> "Invalid JWT signature."
    [] auth = "throwing_token" -> "JWT verification failed."
    [] OTHER -> "next"

Unauthorized(detail) ==
  [status |-> 401,
   json |-> [status |-> 401, title |-> "Unauthorized", detail |-> detail]]

OkTrue == [status |-> 200, json |-> [ok |-> TRUE]]

PromptSent == [status |-> 200, json |-> [message |-> "Bedtime story prompt sent!"]]

NotFoundResponse == [status |-> 404, json |-> [status |-> 404, title |-> "Not Found"]]

InternalServerError(message) ==
  [status |-> 500,
   json |-> [status |-> 500, title |-> "Internal Server Error", detail |-> message]]


(***************************************************************************)
(* Requests the server can receive.                                        *)
(***************************************************************************)
Routes ==
  {"GET /send-story-request", "POST /webhooks/status",
   "POST /webhooks/inbound", "GET /favicon.ico"}

Channels == {"rcs", "sms", Absent}

MessageTypes == {"reply", "text", "image", Absent}

NoReply == [present |-> FALSE, id |-> Absent, title |-> Absent]

Replies ==
  {NoReply} \cup
  [present : {TRUE},
   id : {"GENERATE_STORY_REQUEST", StorySuggestion.postbackData,
         "OTHER_REQUEST", Absent},
   title : {"Generate Story", StorySuggestion.text, "X", Absent}]

Senders == {"+1555", "+1666", Absent}

\* the trigger phrase with the characters at the positions of P in upper case
WithUpperCase(s, P) ==
  [i \in 1..Len(s) |-> IF i \in P THEN UpperOfChar(s[i]) ELSE s[i]]

TriggerCasings ==
  {WithUpperCase(TriggerPhrase, 1..k) : k \in 0..Len(TriggerPhrase)}
  \cup {WithUpperCase(TriggerPhrase, {1, 10}),
        WithUpperCase(TriggerPhrase, {2, 4, 14})}

OtherTexts ==
  {<<>>,
   <<"h", "e", "l", "l", "o">>,
   <<"H", "e", "L", "L", "o">>,
   <<"g", "e", "n", "e", "r", "a", "t", "e">>,
   TriggerPhrase \o <<"!">>,
   <<" ">> \o TriggerPhrase}

Texts ==
  {Undefined, Num(0), Num(123)} \cup {Str(s) : s \in TriggerCasings \cup OtherTexts}

Bodies ==
  [channel : Channels, message_type : MessageTypes, reply : Replies,
   from : Senders, text : Texts]

\* the body Express.json() leaves when the request carries {}
EmptyBody ==
  [channel |-> Absent, message_type |-> Absent, reply |-> NoReply,
   from |-> Absent, text |-> Undefined]

Requests ==
  [route : {"POST /webhooks/inbound"}, auth : AuthHeaders, body : Bodies]
  \cup [route : Routes \ {"POST /webhooks/inbound"}, auth : AuthHeaders,
        body : {EmptyBody}]

NoRequest == [route |-> "none", auth |-> "missing", body |-> EmptyBody]

\* texts the generation backend can return
StoryChars == {"Z"}

Stories ==
  UNION {[1..n -> StoryChars] : n \in 1..MaxStoryLen}

(***************************************************************************)
(* State.                                                                  *)
(***************************************************************************)
VARIABLES
  pc,         \* pc[r]: where the handling of the request in slot r stands
  request,    \* request[r]: the request in slot r
  responses,  \* responses[r]: the HTTP responses written for that request
  sent,       \* sent[r]: the calls of vonage.messages.send made for it
  genCalls,   \* genCalls[r]: the prompts passed to geminiModel.generateContent
  events,     \* events[r]: the order of the steps taken for it
  error,      \* error[r]: the message of the error passed to next(err)
  generated,  \* generated[r]: the story returned by response.text(), if any
  backendCalls,  \* generateContent calls the backend has received so far
  triggerEvents, \* signature-verified trigger events delivered so far
  delivered      \* requests delivered so far

counters == <<backendCalls, triggerEvents, delivered>>

vars ==
  <<pc, request, responses, sent, genCalls, events, error, generated,
    backendCalls, triggerEvents, delivered>>

Init ==
  /\ pc = [r \in Slots |-> "idle"]
  /\ request = [r \in Slots |-> NoRequest]
  /\ responses = [r \in Slots |-> <<>>]
  /\ sent = [r \in Slots |-> <<>>]
  /\ genCalls = [r \in Slots |-> <<>>]
  /\ events = [r \in Slots |-> <<>>]
  /\ error = [r \in Slots |-> ""]
  /\ generated = [r \in Slots |-> <<>>]
  /\ backendCalls = 0
  /\ triggerEvents = 0
  /\ delivered = 0

(***************************************************************************)
(* Steps shared by the handlers.                                           *)
(***************************************************************************)
\* res.status(..).json(..): the response is written and the request is over
WriteResponse(r, resp) ==
  /\ responses' = [responses EXCEPT ![r] = Append(@, resp)]
  /\ events' = [events EXCEPT ![r] = Append(@, "respond")]
  /\ pc' = [pc EXCEPT ![r] = "done"]

\* the send is started but its caller goes on without awaiting it
CallSendMut(r, message, happened) ==
  /\ sent' = [sent EXCEPT ![r] = Append(@, [message |-> message, outcome |-> "pending"])]
  /\ events' = [events EXCEPT ![r] = @ \o happened \o <<"send:start">>]
  /\ pc' = [pc EXCEPT ![r] = "respond"]

\* the call of vonage.messages.send(message) at server.js:186 and 206; the
\* caller is suspended at the await until the call settles
CallSend(r, message, happened) ==
  /\ sent' = [sent EXCEPT ![r] = Append(@, [message |-> message, outcome |-> "pending"])]
  /\ events' = [events EXCEPT ![r] = @ \o happened \o <<"send:start">>]
  /\ pc' = [pc EXCEPT ![r] = "send"]

\* the recipient is read from a place shared by the calls in flight
sendGeneratedStoryMut(r, to, story, happened) ==
  CallSend(r, RCSText(request[CHOOSE q \in Slots : pc[q] # "idle"].body.from, story),
           happened)

\* sendGeneratedStory(to, story), server.js:198-206
sendGeneratedStory(r, to, story, happened) ==
  CallSend(r, RCSText(to, story), happened)

\* sendInitialStoryPrompt(number), server.js:152-186
sendInitialStoryPrompt(r, number) ==
  CallSend(r, RCSCustom(number), <<>>)

\* the catch (geminiError) blocks, server.js:95-100 and 112-117
CatchGeminiError(r, thrown) ==
  sendGeneratedStory(r, request[r].body.from, FallbackText, <<thrown>>)

\* a reply that is not a trigger is handled as a text
InboundStepMut(body) ==
  IF ReplyBranch(body) /\ IsReplyTrigger(body.reply)
    THEN "generate"
    ELSE IF TextBranch(body) \/ ReplyBranch(body)
      THEN IF ToLowerCaseThrows(body.text) THEN "throw"
           ELSE IF IsTextTrigger(body.text) THEN "generate" ELSE "echo"
      ELSE "none"

\* what the handler of POST /webhooks/inbound does up to its first await,
\* server.js:80-128
InboundStep(body) ==
  IF ReplyBranch(body)
    THEN IF IsReplyTrigger(body.reply) THEN "generate" ELSE "none"
    ELSE IF TextBranch(body)
      THEN IF ToLowerCaseThrows(body.text) THEN "throw"
           ELSE IF IsTextTrigger(body.text) THEN "generate" ELSE "echo"
      ELSE "none"

(***************************************************************************)
(* Trigger events, described on the payload itself: the history variable   *)
(* triggerEvents and the properties count them this way.                   *)
(***************************************************************************)
\* s is t up to the case of its letters
SameUpToCase(s, t) ==
  /\ Len(s) = Len(t)
  /\ \A i \in 1..Len(s) :
       \/ s[i] = t[i]
       \/ s[i] = UpperOfChar(t[i])
       \/ UpperOfChar(s[i]) = t[i]

ReplyTriggerEvent(b) ==
  /\ b.channel = "rcs"
  /\ b.message_type = "reply"
  /\ b.reply.present
  /\ (b.reply.id = "GENERATE_STORY_REQUEST" \/ b.reply.title = "Generate Story")

TextTriggerEvent(b) ==
  /\ b.channel = "rcs"
  /\ b.message_type = "text"
  /\ b.text.t = "string"
  /\ SameUpToCase(b.text.s, TriggerPhrase)

TriggerRequest(rq) ==
  /\ rq.route = "POST /webhooks/inbound"
  /\ rq.auth = "good_token"
  /\ (ReplyTriggerEvent(rq.body) \/ TextTriggerEvent(rq.body))

(***************************************************************************)
(* Actions.                                                                *)
(***************************************************************************)
\* a request arrives in the free slot r and Express.json() has parsed it
Receive(r, rq) ==
  /\ pc[r] = "idle"
  /\ request' = [request EXCEPT ![r] = rq]
  /\ pc' = [pc EXCEPT ![r] = "routed"]
  /\ delivered' = delivered + 1
  /\ triggerEvents' = triggerEvents + (IF TriggerRequest(rq) THEN 1 ELSE 0)
  /\ UNCHANGED <<responses, sent, genCalls, events, error, generated, backendCalls>>

\* verifyWebhookSignature, server.js:29-58, on the two webhook routes
VerifyWebhookSignature(r) ==
  /\ pc[r] = "routed"
  /\ request[r].route \in {"POST /webhooks/status", "POST /webhooks/inbound"}
  /\ IF VerifyOutcome(request[r].auth) = "next"
       THEN /\ pc' = [pc EXCEPT ![r] = "handler"]
            /\ UNCHANGED <<responses, events>>
       ELSE WriteResponse(r, Unauthorized(VerifyOutcome(request[r].auth)))
  /\ UNCHANGED <<request, sent, genCalls, error, generated, counters>>

\* POST /webhooks/status, server.js:68-74
StatusHandler(r) ==
  /\ pc[r] = "handler"
  /\ request[r].route = "POST /webhooks/status"
  /\ WriteResponse(r, OkTrue)
  /\ UNCHANGED <<request, sent, genCalls, error, generated, counters>>

\* POST /webhooks/inbound, server.js:76-130, from its start to its first
\* await, to its exception, or to its end
InboundHandler(r) ==
  /\ pc[r] = "handler"
  /\ request[r].route = "POST /webhooks/inbound"
  /\ LET body == request[r].body
         step == InboundStep(body)
     IN CASE step = "generate" ->
               /\ genCalls' = [genCalls EXCEPT ![r] = Append(@, StoryPromptText)]
               /\ backendCalls' = backendCalls + 1
               /\ events' = [events EXCEPT ![r] = Append(@, "generate:start")]
               /\ pc' = [pc EXCEPT ![r] = "generateContent"]
               /\ UNCHANGED <<responses, sent, error>>
          [] step = "echo" ->
               /\ sendGeneratedStory(r, body.from, EchoBody(body.text), <<>>)
               /\ UNCHANGED <<responses, genCalls, error, backendCalls>>
          [] step = "throw" ->
               /\ error' = [error EXCEPT ![r] = "req.body.text.toLowerCase is not a function"]
               /\ pc' = [pc EXCEPT ![r] = "error"]
               /\ UNCHANGED <<responses, sent, genCalls, events, backendCalls>>
          [] OTHER ->
               /\ WriteResponse(r, OkTrue)
               /\ UNCHANGED <<sent, genCalls, error, backendCalls>>
  /\ UNCHANGED <<request, generated, triggerEvents, delivered>>

\* await geminiModel.generateContent(prompt) settles, server.js:91 and 108
GenerateContentSettles(r, ok) ==
  /\ pc[r] = "generateContent"
  /\ IF ok
       THEN /\ pc' = [pc EXCEPT ![r] = "response"]
            /\ UNCHANGED <<sent, events>>
       ELSE CatchGeminiError(r, "generateContent:rejected")
  /\ UNCHANGED <<request, responses, genCalls, error, generated, counters>>

\* await result.response settles and response.text() returns or throws,
\* server.js:92-94 and 109-111
ResponseSettles(r, outcome, story) ==
  /\ pc[r] = "response"
  /\ IF outcome = "ok"
       THEN /\ generated' = [generated EXCEPT ![r] = story]
            /\ sendGeneratedStory(r, request[r].body.from, story, <<"text:returned">>)
       ELSE /\ CatchGeminiError(r, outcome)
            /\ UNCHANGED generated
  /\ UNCHANGED <<request, responses, genCalls, error, counters>>

\* the try/catch around the await of vonage.messages.send, server.js:185-195
\* and 205-215, takes every rejection: sendGeneratedStory and
\* sendInitialStoryPrompt resolve whether the send succeeded or failed
SendRejectionCaughtMut == FALSE

SendRejectionCaught == TRUE

\* the pending send is the one of server.js:94 or 111, awaited inside the try
AwaitedInTry(r) ==
  /\ Len(events[r]) >= 2
  /\ events[r][Len(events[r])] = "send:start"
  /\ events[r][Len(events[r]) - 1] = "text:returned"

\* await vonage.messages.send(message) settles.  A rejection that the
\* function's own catch did not take would reject the function: awaited in
\* the try of the handler it enters catch (geminiError), elsewhere it
\* rejects the handler
SendSettles(r, ok) ==
  /\ pc[r] = "send"
  /\ IF ok \/ SendRejectionCaught
       THEN /\ sent' = [sent EXCEPT ![r][Len(sent[r])].outcome =
                          IF ok THEN "ok" ELSE "failed"]
            /\ events' = [events EXCEPT ![r] =
                            Append(@, IF ok THEN "send:ok" ELSE "send:failed")]
            /\ pc' = [pc EXCEPT ![r] = "respond"]
            /\ UNCHANGED error
       ELSE IF AwaitedInTry(r)
         THEN /\ sent' = [sent EXCEPT ![r] =
                            Append([@ EXCEPT ![Len(sent[r])].outcome = "failed"],
                                   [message |-> RCSText(request[r].body.from, FallbackText),
                                    outcome |-> "pending"])]
              /\ events' = [events EXCEPT ![r] =
                              @ \o <<"send:failed", "sendGeneratedStory:rejected",
                                     "send:start">>]
              /\ UNCHANGED <<pc, error>>
         ELSE /\ sent' = [sent EXCEPT ![r][Len(sent[r])].outcome = "failed"]
              /\ events' = [events EXCEPT ![r] = Append(@, "send:failed")]
              /\ error' = [error EXCEPT ![r] = "send rejected"]
              /\ pc' = [pc EXCEPT ![r] = "error"]
  /\ UNCHANGED <<request, responses, genCalls, generated, counters>>

\* the handler resumes after its last await, server.js:64 and 128
Respond(r) ==
  /\ pc[r] = "respond"
  /\ WriteResponse(r, IF request[r].route = "GET /send-story-request"
                        THEN PromptSent ELSE OkTrue)
  /\ UNCHANGED <<request, sent, genCalls, error, generated, counters>>

\* GET /send-story-request, server.js:60-66
SendStoryRequestHandler(r) ==
  /\ pc[r] = "routed"
  /\ request[r].route = "GET /send-story-request"
  /\ sendInitialStoryPrompt(r, recipientNumber)
  /\ UNCHANGED <<request, responses, genCalls, error, generated, counters>>

\* app.all("*"), server.js:132-137
NotFound(r) ==
  /\ pc[r] = "routed"
  /\ request[r].route \notin
       {"GET /send-story-request", "POST /webhooks/status", "POST /webhooks/inbound"}
  /\ WriteResponse(r, NotFoundResponse)
  /\ UNCHANGED <<request, sent, genCalls, error, generated, counters>>

\* a handler that rejects never answers unless its rejection is passed on
ErrorMiddlewareMut(r) ==
  /\ pc[r] = "error"
  /\ FALSE
  /\ UNCHANGED vars

\* catchAsync passes the rejection to next, server.js:23-25, and the error
\* middleware answers, server.js:139-145
ErrorMiddleware(r) ==
  /\ pc[r] = "error"
  /\ WriteResponse(r, InternalServerError(error[r]))
  /\ UNCHANGED <<request, sent, genCalls, error, generated, counters>>

\* the request is over: its request-scoped data is dropped, the slot is free
Close(r) ==
  /\ pc[r] = "done"
  /\ pc' = [pc EXCEPT ![r] = "idle"]
  /\ request' = [request EXCEPT ![r] = NoRequest]
  /\ responses' = [responses EXCEPT ![r] = <<>>]
  /\ sent' = [sent EXCEPT ![r] = <<>>]
  /\ genCalls' = [genCalls EXCEPT ![r] = <<>>]
  /\ events' = [events EXCEPT ![r] = <<>>]
  /\ error' = [error EXCEPT ![r] = ""]
  /\ generated' = [generated EXCEPT ![r] = <<>>]
  /\ UNCHANGED counters

\* the caller sends its next request when the previous one is answered
Deliver(r) ==
  /\ delivered < MaxRequests
  /\ \A q \in Slots : pc[q] = "idle"
  /\ \E rq \in Requests : Receive(r, rq)

Next ==
  \E r \in Slots :
    \/ Deliver(r)
    \/ VerifyWebhookSignature(r)
    \/ StatusHandler(r)
    \/ InboundHandler(r)
    \/ \E ok \in BOOLEAN : GenerateContentSettles(r, ok)
    \/ \E outcome \in {"ok", "response:rejected", "text:threw"}, story \in Stories :
         ResponseSettles(r, outcome, story)
    \/ \E ok \in BOOLEAN : SendSettles(r, ok)
    \/ Respond(r)
    \/ SendStoryRequestHandler(r)
    \/ NotFound(r)
    \/ ErrorMiddleware(r)
    \/ Close(r)

Spec == Init /\ [][Next]_vars

(***************************************************************************)
(* Requests in flight together.  Under SpecConc a request is delivered to  *)
(* any free slot while others are being handled, so that the handlers      *)
(* interleave at their awaits; the requests are drawn from one payload of  *)
(* each kind, from two senders.                                            *)
(***************************************************************************)
RcsBody(message_type, reply, from, text) ==
  [channel |-> "rcs", message_type |-> message_type, reply |-> reply,
   from |-> from, text |-> text]

ConcBodies ==
  {RcsBody("reply", [present |-> TRUE, id |-> "GENERATE_STORY_REQUEST", title |-> "X"],
           "+1555", Undefined),
   RcsBody("text", NoReply, "+1666", Str(<<"H", "e", "L", "L", "o">>)),
   RcsBody("text", NoReply, "+1666", Num(123)),
   [RcsBody("text", NoReply, "+1555", Str(TriggerPhrase)) EXCEPT !.channel = "sms"]}

ConcRequests ==
  [route : {"POST /webhooks/inbound"}, auth : {"good_token"}, body : ConcBodies]
  \cup [route : Routes, auth : {"bad_token"}, body : {EmptyBody}]
  \cup [route : {"POST /webhooks/status"}, auth : {"good_token"}, body : {EmptyBody}]

\* requests arrive while others are in flight; a request takes the first
\* free slot
DeliverConcurrently(r) ==
  /\ delivered < MaxRequests
  /\ \A q \in 1..(r - 1) : pc[q] # "idle"
  /\ \E rq \in ConcRequests : Receive(r, rq)

NextConc ==
  \E r \in Slots :
    \/ DeliverConcurrently(r)
    \/ VerifyWebhookSignature(r)
    \/ StatusHandler(r)
    \/ InboundHandler(r)
    \/ \E ok \in BOOLEAN : GenerateContentSettles(r, ok)
    \/ \E outcome \in {"ok", "response:rejected", "text:threw"}, story \in Stories :
         ResponseSettles(r, outcome, story)
    \/ \E ok \in BOOLEAN : SendSettles(r, ok)
    \/ Respond(r)
    \/ SendStoryRequestHandler(r)
    \/ NotFound(r)
    \/ ErrorMiddleware(r)
    \/ Close(r)

SpecConc == Init /\ [][NextConc]_vars

(***************************************************************************)
(* Progress.  The event loop runs every callback that is ready, and the    *)
(* calls to the generation backend and to vonage.messages.send settle:     *)
(* a step of a request that stays possible is eventually taken.  Nothing   *)
(* obliges a caller to deliver a request.                                  *)
(***************************************************************************)
HandlerStep(r) ==
  \/ VerifyWebhookSignature(r)
  \/ StatusHandler(r)
  \/ InboundHandler(r)
  \/ \E ok \in BOOLEAN : GenerateContentSettles(r, ok)
  \/ \E outcome \in {"ok", "response:rejected", "text:threw"}, story \in Stories :
       ResponseSettles(r, outcome, story)
  \/ \E ok \in BOOLEAN : SendSettles(r, ok)
  \/ Respond(r)
  \/ SendStoryRequestHandler(r)
  \/ NotFound(r)
  \/ ErrorMiddleware(r)

LiveSpec ==
  Init /\ [][NextConc]_vars /\ \A r \in Slots : WF_vars(HandlerStep(r))


(***************************************************************************)
(* Vocabulary of the properties.  The conditions of the properties are     *)
(* spelled out on the request itself, not through the operators above.     *)
(***************************************************************************)
VerifiedInbound(r) ==
  /\ request[r].route = "POST /webhooks/inbound"
  /\ request[r].auth = "good_token"

Answered(r) == pc[r] = "done"

PlainTextEvent(b) ==
  /\ b.channel = "rcs"
  /\ b.message_type = "text"
  /\ b.text.t = "string"
  /\ ~SameUpToCase(b.text.s, TriggerPhrase)

\* the one message sent for the request in slot r is a text message to `to`
SentOneTextTo(r, to) ==
  /\ Len(sent[r]) = 1
  /\ sent[r][1].message.channel = "rcs"
  /\ sent[r][1].message.message_type = "text"
  /\ sent[r][1].message.to = to

(***************************************************************************)
(* C1: every signature-verified POST /webhooks/inbound call has made, when *)
(* it is answered, exactly one call of vonage.messages.send if its event   *)
(* is an rcs reply matching the trigger or any rcs text event, and no call *)
(* if the event is ignored.                                                *)
(***************************************************************************)
C1_ExactlyOneSendUnlessIgnored ==
  \A r \in Slots :
    (VerifiedInbound(r) /\ Answered(r)) =>
      LET b == request[r].body
          nonIgnored ==
            \/ ReplyTriggerEvent(b)
            \/ (b.channel = "rcs" /\ b.message_type = "text")
      IN Len(sent[r]) = (IF nonIgnored THEN 1 ELSE 0)

(***************************************************************************)
(* C2: an rcs reply event with a reply object whose id is                  *)
(* "GENERATE_STORY_REQUEST" or whose title is "Generate Story" has, when   *)
(* it is answered, invoked the generation backend and sent one text        *)
(* message addressed to the event's from.                                  *)
(***************************************************************************)
C2_ReplyTriggerGeneratesAndReplies ==
  \A r \in Slots :
    (VerifiedInbound(r) /\ ReplyTriggerEvent(request[r].body)) =>
      /\ pc[r] \notin {"routed", "handler"} => Len(genCalls[r]) = 1
      /\ Answered(r) => SentOneTextTo(r, request[r].body.from)

\* a reply matching by its title alone has been answered with a story
C2_Witness ==
  \E r \in Slots :
    /\ VerifiedInbound(r) /\ Answered(r)
    /\ request[r].body.channel = "rcs"
    /\ request[r].body.message_type = "reply"
    /\ request[r].body.reply.present
    /\ request[r].body.reply.id = "OTHER_REQUEST"
    /\ request[r].body.reply.title = "Generate Story"
    /\ request[r].body.from = "+1555"
    /\ Len(genCalls[r]) = 1
    /\ SentOneTextTo(r, "+1555")
    /\ sent[r][1].message.text \in Stories

(***************************************************************************)
(* C3: an rcs text event whose text is "generate story" in any casing is   *)
(* a story trigger: the generation backend is invoked, its result (or the  *)
(* fallback) is sent to from, and the plain echo is not sent.              *)
(***************************************************************************)
C3_TextTriggerAnyCasing ==
  \A r \in Slots :
    (VerifiedInbound(r) /\ TextTriggerEvent(request[r].body)) =>
      /\ pc[r] \notin {"routed", "handler"} => Len(genCalls[r]) = 1
      /\ \A i \in 1..Len(sent[r]) :
           /\ sent[r][i].message.text \in Stories \cup {FallbackText}
           /\ sent[r][i].message.text #
                EchoPrefix \o request[r].body.text.s \o EchoSuffix
      /\ Answered(r) => SentOneTextTo(r, request[r].body.from)

\* "GENERATE STORY" has been answered with a generated story
C3_Witness ==
  \E r \in Slots :
    /\ VerifiedInbound(r) /\ Answered(r)
    /\ request[r].body.channel = "rcs"
    /\ request[r].body.message_type = "text"
    /\ request[r].body.text.t = "string"
    /\ request[r].body.text.s = WithUpperCase(TriggerPhrase, 1..Len(TriggerPhrase))
    /\ request[r].body.text.s # TriggerPhrase
    /\ Len(genCalls[r]) = 1
    /\ SentOneTextTo(r, request[r].body.from)
    /\ sent[r][1].message.text \in Stories

(***************************************************************************)
(* C4: an rcs text event whose text is a string other than "generate       *)
(* story" in any casing never invokes the generation backend and is        *)
(* answered with one text message to from whose body is                    *)
(* "I received your message: " + text + ". Tap 'Generate Story' for a      *)
(* tale!", the text embedded as received.                                  *)
(***************************************************************************)
HelloText == <<"h", "e", "l", "l", "o">>

HelloEcho ==
  <<"I", " ", "r", "e", "c", "e", "i", "v", "e", "d", " ", "y", "o", "u",
    "r", " ", "m", "e", "s", "s", "a", "g", "e", ":", " ", "h", "e", "l",
    "l", "o", ".", " ", "T", "a", "p", " ", "'", "G", "e", "n", "e", "r",
    "a", "t", "e", " ", "S", "t", "o", "r", "y", "'", " ", "f", "o", "r",
    " ", "a", " ", "t", "a", "l", "e", "!">>

C5_OtherChannelsIgnored ==
  \A r \in Slots :
    (VerifiedInbound(r) /\ request[r].body.channel # "rcs") =>
      /\ genCalls[r] = <<>>
      /\ sent[r] = <<>>
      /\ pc[r] \in {"routed", "handler", "done"}
      /\ Answered(r) => (Len(responses[r]) = 1 /\ responses[r][1].status = 200)

\* an sms event carrying both triggers has been answered
C5_Witness ==
  \E r \in Slots :
    /\ VerifiedInbound(r) /\ Answered(r)
    /\ request[r].body.channel = "sms"
    /\ request[r].body.message_type = "text"
    /\ request[r].body.text = Str(TriggerPhrase)
    /\ request[r].body.reply.present
    /\ request[r].body.reply.id = "GENERATE_STORY_REQUEST"
    /\ sent[r] = <<>>
    /\ genCalls[r] = <<>>
    /\ responses[r] = <<OkTrue>>


(***************************************************************************)
(* C6: when the generation backend fails for a trigger event - at the      *)
(* generateContent call, at the await of the response, or in text() - the  *)
(* handler sends to from one text message whose body is "Oops! I couldn't  *)
(* generate a story right now. Please try again later.", no error reaches  *)
(* the error middleware, and the webhook is answered with 200.             *)
(***************************************************************************)
GenerationFailures == {"generateContent:rejected", "response:rejected", "text:threw"}

GenerationFailed(r) ==
  \E i \in 1..Len(events[r]) : events[r][i] \in GenerationFailures

OopsBody ==
  <<"O", "o", "p", "s", "!", " ", "I", " ", "c", "o", "u", "l", "d", "n",
    "'", "t", " ", "g", "e", "n", "e", "r", "a", "t", "e", " ", "a", " ",
    "s", "t", "o", "r", "y", " ", "r", "i", "g", "h", "t", " ", "n", "o",
    "w", ".", " ", "P", "l", "e", "a", "s", "e", " ", "t", "r", "y", " ",
    "a", "g", "a", "i", "n", " ", "l", "a", "t", "e", "r", ".">>

C6_GenerationFailureSendsFallback ==
  \A r \in Slots :
    (VerifiedInbound(r) /\ GenerationFailed(r)) =>
      /\ ReplyTriggerEvent(request[r].body) \/ TextTriggerEvent(request[r].body)
      /\ pc[r] \in {"send", "respond", "done"}
      /\ error[r] = ""
      /\ SentOneTextTo(r, request[r].body.from)
      /\ sent[r][1].message.text = OopsBody
      /\ Answered(r) => responses[r] = <<[status |-> 200, json |-> [ok |-> TRUE]]>>

\* a text trigger whose text() threw has been answered after the fallback
C6_Witness ==
  \E r \in Slots :
    /\ VerifiedInbound(r) /\ Answered(r)
    /\ TextTriggerEvent(request[r].body)
    /\ events[r] = <<"generate:start", "text:threw", "send:start", "send:ok", "respond">>
    /\ SentOneTextTo(r, request[r].body.from)
    /\ sent[r][1].message.text = OopsBody
    /\ responses[r][1].status = 200

(***************************************************************************)
(* C7: every POST /webhooks/inbound call that passed the signature         *)
(* verification is answered with status 200 and body {ok:true}, whatever   *)
(* the shape of its payload and whatever the outcome of the generation and *)
(* of the send.                                                            *)
(***************************************************************************)
C7_VerifiedInboundAlwaysOk ==
  \A r \in Slots :
    (VerifiedInbound(r) /\ Answered(r)) =>
      responses[r] = <<[status |-> 200, json |-> [ok |-> TRUE]]>>

(***************************************************************************)
(* C8: on POST /webhooks/inbound and POST /webhooks/status a request whose *)
(* authorization header is missing, has no token, or has a token that      *)
(* verifySignature rejects or throws on, is answered with 401 and a body   *)
(* {status, title, detail} before any core logic: no generation call and   *)
(* no outbound send is ever made for it.                                   *)
(***************************************************************************)
Webhook(r) ==
  request[r].route \in {"POST /webhooks/inbound", "POST /webhooks/status"}

C8_UnverifiedWebhookRejected ==
  \A r \in Slots :
    (Webhook(r) /\ request[r].auth # "good_token") =>
      /\ genCalls[r] = <<>>
      /\ sent[r] = <<>>
      /\ pc[r] \in {"routed", "done"}
      /\ Answered(r) =>
           /\ Len(responses[r]) = 1
           /\ responses[r][1].status = 401
           /\ DOMAIN responses[r][1].json = {"status", "title", "detail"}
           /\ responses[r][1].json.status = 401
           /\ events[r] = <<"respond">>

\* a story trigger carrying a token on which verifySignature throws has
\* been rejected
C8_Witness ==
  \E r \in Slots :
    /\ request[r].route = "POST /webhooks/inbound"
    /\ request[r].auth = "throwing_token"
    /\ ReplyTriggerEvent(request[r].body)
    /\ Answered(r)
    /\ responses[r] = <<Unauthorized("JWT verification failed.")>>
    /\ genCalls[r] = <<>>
    /\ sent[r] = <<>>

(***************************************************************************)
(* C9: a GET /send-story-request has, when it is answered, made exactly    *)
(* one outbound send, of a rich card addressed to PHONE_NUMBER whose       *)
(* single suggestion has the label "Generate Story" and the postback       *)
(* "GENERATE_STORY_REQUEST", has made no generation call, and is answered  *)
(* with 200.                                                               *)
(***************************************************************************)
C9_StoryRequestSendsOneCard ==
  \A r \in Slots :
    request[r].route = "GET /send-story-request" =>
      /\ genCalls[r] = <<>>
      /\ Len(sent[r]) <= 1
      /\ \A i \in 1..Len(sent[r]) :
           /\ sent[r][i].message.message_type = "custom"
           /\ sent[r][i].message.to = recipientNumber
           /\ sent[r][i].message.custom.suggestions =
                <<[reply |-> [text |-> "Generate Story",
                              postbackData |-> "GENERATE_STORY_REQUEST"]]>>
      /\ Answered(r) =>
           /\ Len(sent[r]) = 1
           /\ Len(responses[r]) = 1
           /\ responses[r][1].status = 200

\* a GET /send-story-request has been answered after its card was sent
C9_Witness ==
  \E r \in Slots :
    /\ request[r].route = "GET /send-story-request"
    /\ Answered(r)
    /\ Len(sent[r]) = 1
    /\ sent[r][1].outcome = "ok"
    /\ sent[r][1].message.to = recipientNumber
    /\ responses[r][1].status = 200

(***************************************************************************)
(* C10: a malformed or unexpected inbound payload - an unknown channel, a  *)
(* missing text on an rcs text event, a missing reply on an rcs reply      *)
(* event, a missing message_type - is ignored: no generation call, no      *)
(* outbound send, no error, and a 200 answer.                              *)
(***************************************************************************)
MalformedEvent(b) ==
  \/ b.channel # "rcs"
  \/ b.message_type = Absent
  \/ (b.message_type = "text" /\ b.text = Undefined)
  \/ (b.message_type = "reply" /\ ~b.reply.present)

C10_MalformedPayloadIgnored ==
  \A r \in Slots :
    (VerifiedInbound(r) /\ MalformedEvent(request[r].body)) =>
      /\ genCalls[r] = <<>>
      /\ sent[r] = <<>>
      /\ error[r] = ""
      /\ Answered(r) => (Len(responses[r]) = 1 /\ responses[r][1].status = 200)


(***************************************************************************)
(* C11: for a trigger event the body of the text reply is the text the     *)
(* backend returned, unmodified, exactly when generation succeeded, and    *)
(* the fallback string exactly when generation failed; a failure of the    *)
(* outbound send after a successful generation never causes the fallback   *)
(* to be sent.                                                             *)
(***************************************************************************)
GenerationSucceeded(r) ==
  \E i \in 1..Len(events[r]) : events[r][i] = "text:returned"

C11_ReplyBodyFollowsGeneration ==
  \A r \in Slots :
    (VerifiedInbound(r)
       /\ (ReplyTriggerEvent(request[r].body) \/ TextTriggerEvent(request[r].body))) =>
      /\ ~(GenerationSucceeded(r) /\ GenerationFailed(r))
      /\ Len(sent[r]) <= 1
      /\ \A i \in 1..Len(sent[r]) :
           /\ GenerationSucceeded(r) \/ GenerationFailed(r)
           /\ GenerationSucceeded(r) <=> sent[r][i].message.text = generated[r]
           /\ GenerationFailed(r) <=> sent[r][i].message.text = OopsBody

\* a generated story whose send failed has been answered, and the story is
\* the only message sent
C11_Witness ==
  \E r \in Slots :
    /\ VerifiedInbound(r) /\ Answered(r)
    /\ ReplyTriggerEvent(request[r].body)
    /\ events[r] = <<"generate:start", "text:returned", "send:start", "send:failed", "respond">>
    /\ Len(sent[r]) = 1
    /\ sent[r][1].outcome = "failed"
    /\ sent[r][1].message.text = generated[r]
    /\ generated[r] \in Stories
    /\ sent[r][1].message.text # OopsBody


(***************************************************************************)
(* C12: over any sequence of inbound events the number of calls the        *)
(* generation backend has received equals the number of trigger events     *)
(* handled: every trigger event invokes generation exactly once, whether   *)
(* it succeeds or fails, and every other event never invokes it.           *)
(***************************************************************************)
\* trigger events delivered whose handler has not started yet
TriggersWaiting ==
  {r \in Slots : TriggerRequest(request[r]) /\ pc[r] \in {"routed", "handler"}}

C12_GenerationCallsEqualTriggerEvents ==
  /\ backendCalls = triggerEvents - Cardinality(TriggersWaiting)
  /\ \A r \in Slots :
       Len(genCalls[r]) =
         (IF TriggerRequest(request[r]) /\ r \notin TriggersWaiting THEN 1 ELSE 0)

\* a trigger event whose generation failed and a plain text have both been
\* answered: one backend call for the two events
C12_Witness ==
  /\ delivered = 2
  /\ triggerEvents = 1
  /\ backendCalls = 1
  /\ \E r, q \in Slots :
       /\ Answered(r) /\ TriggerRequest(request[r]) /\ GenerationFailed(r)
       /\ Len(genCalls[r]) = 1
       /\ Answered(q) /\ VerifiedInbound(q) /\ PlainTextEvent(request[q].body)
       /\ Len(sent[q]) = 1 /\ genCalls[q] = <<>>


(***************************************************************************)
(* C13: within one inbound trigger request the generation call finishes,   *)
(* with a story or a failure, before the outbound send is attempted, and   *)
(* the send attempt finishes, with success or failure, before the 200      *)
(* acknowledgment is written; nothing follows the acknowledgment.          *)
(***************************************************************************)
C13_GenerationThenSendThenRespond ==
  \A r \in Slots :
    (VerifiedInbound(r)
       /\ (ReplyTriggerEvent(request[r].body) \/ TextTriggerEvent(request[r].body))) =>
      LET e == events[r]
      IN /\ Len(e) <= 5
         /\ Len(e) >= 1 => e[1] = "generate:start"
         /\ Len(e) >= 2 => e[2] \in GenerationFailures \cup {"text:returned"}
         /\ Len(e) >= 3 => e[3] = "send:start"
         /\ Len(e) >= 4 => e[4] \in {"send:ok", "send:failed"}
         /\ Len(e) >= 5 => e[5] = "respond"
         /\ Answered(r) =>
              (Len(e) = 5 /\ Len(responses[r]) = 1 /\ responses[r][1].status = 200)

\* a trigger request whose generation and send both failed has been
\* acknowledged, in this order
C13_Witness ==
  \E r \in Slots :
    /\ VerifiedInbound(r) /\ Answered(r)
    /\ TextTriggerEvent(request[r].body)
    /\ events[r] = <<"generate:start", "generateContent:rejected", "send:start",
                     "send:failed", "respond">>
    /\ responses[r] = <<OkTrue>>


(***************************************************************************)
(* C14: when several inbound calls are in flight and interleave at their   *)
(* awaits, every outbound message is addressed to the from of the request  *)
(* that produced it and carries that request's own text or story, and a    *)
(* step of one request - a generation or send failure included - changes   *)
(* neither the messages nor the response of any other request.             *)
(***************************************************************************)
OwnMessagesOnly(r) ==
  /\ \A i \in 1..Len(sent[r]) :
       /\ sent[r][i].message.to = request[r].body.from
       /\ PlainTextEvent(request[r].body) =>
            sent[r][i].message.text =
              EchoPrefix \o request[r].body.text.s \o EchoSuffix
       /\ (ReplyTriggerEvent(request[r].body) \/ TextTriggerEvent(request[r].body)) =>
            sent[r][i].message.text = (IF GenerationFailed(r) THEN OopsBody ELSE generated[r])
  /\ (Answered(r) /\ (PlainTextEvent(request[r].body) \/ TriggerRequest(request[r]))) =>
       (Len(sent[r]) = 1 /\ responses[r] = <<[status |-> 200, json |-> [ok |-> TRUE]]>>)

\* a step that changes what was sent or answered for the request in slot q
\* is a step of that request, and no other slot moves in it
StepOfOneRequest ==
  \A q \in Slots :
    (sent'[q] # sent[q] \/ responses'[q] # responses[q] \/ pc'[q] # pc[q]) =>
      \A o \in Slots \ {q} :
        /\ sent'[o] = sent[o]
        /\ responses'[o] = responses[o]
        /\ pc'[o] = pc[o]
        /\ generated'[o] = generated[o]

C14_RequestsIsolated ==
  /\ [](\A r \in Slots : VerifiedInbound(r) => OwnMessagesOnly(r))
  /\ [][StepOfOneRequest]_vars

\* two requests of different senders are in flight together: the send of
\* one has failed after its generation failed, the other is answered with
\* its own echo
C14_Witness ==
  \E r, q \in Slots :
    /\ r # q
    /\ VerifiedInbound(r) /\ VerifiedInbound(q)
    /\ request[r].body.from # request[q].body.from
    /\ GenerationFailed(r)
    /\ pc[r] = "respond"
    /\ sent[r][1].outcome = "failed"
    /\ sent[r][1].message.to = request[r].body.from
    /\ Answered(q)
    /\ PlainTextEvent(request[q].body)
    /\ events[q] = <<"send:start", "send:ok", "respond">>
    /\ sent[q][1].message.to = request[q].body.from
    /\ responses[q] = <<OkTrue>>


(***************************************************************************)
(* C15: the trigger strings of the card and of the handler agree: an rcs   *)
(* reply whose id is the postbackData of the suggestion of the card built  *)
(* by sendInitialStoryPrompt, or whose title is that suggestion's text, is *)
(* handled as a story trigger, and so is an rcs text carrying the          *)
(* suggestion's label in any casing.                                       *)
(***************************************************************************)
\* the suggestion of the card sendInitialStoryPrompt builds
CardSuggestion == RCSCustom(recipientNumber).custom.suggestions[1].reply

\* the label of the suggestion, server.js:173, character by character
StoryLabelChars ==
  <<"G", "e", "n", "e", "r", "a", "t", "e", " ", "S", "t", "o", "r", "y">>

AnswersTheCard(b) ==
  /\ b.channel = "rcs"
  /\ \/ /\ b.message_type = "reply"
        /\ b.reply.present
        /\ (b.reply.id = CardSuggestion.postbackData \/ b.reply.title = CardSuggestion.text)
     \/ /\ b.message_type = "text"
        /\ b.text.t = "string"
        /\ SameUpToCase(b.text.s, StoryLabelChars)

C15_CardAndHandlerAgree ==
  \A r \in Slots :
    (VerifiedInbound(r) /\ AnswersTheCard(request[r].body)) =>
      /\ pc[r] # "error"
      /\ pc[r] \notin {"routed", "handler"} => Len(genCalls[r]) = 1
      /\ \A i \in 1..Len(sent[r]) :
           sent[r][i].message.text \in Stories \cup {OopsBody}
      /\ Answered(r) => SentOneTextTo(r, request[r].body.from)

\* the reply a tap on the suggestion produces has been answered with a story
C15_Witness ==
  \E r \in Slots :
    /\ VerifiedInbound(r) /\ Answered(r)
    /\ request[r].body.channel = "rcs"
    /\ request[r].body.message_type = "reply"
    /\ request[r].body.reply =
         [present |-> TRUE, id |-> CardSuggestion.postbackData,
          title |-> CardSuggestion.text]
    /\ Len(genCalls[r]) = 1
    /\ SentOneTextTo(r, request[r].body.from)
    /\ sent[r][1].message.text = generated[r]
    /\ generated[r] \in Stories


(***************************************************************************)
(* C16: an rcs reply event whose reply object matches neither trigger is   *)
(* ignored - no generation call, no send - even when the payload also      *)
(* carries a text, "generate story" included: the reply branch never       *)
(* falls through to the text branch.                                       *)
(***************************************************************************)
UnknownReplyEvent(b) ==
  /\ b.channel = "rcs"
  /\ b.message_type = "reply"
  /\ b.reply.present
  /\ b.reply.id # "GENERATE_STORY_REQUEST"
  /\ b.reply.title # "Generate Story"

C16_UnknownReplyIgnored ==
  \A r \in Slots :
    (VerifiedInbound(r) /\ UnknownReplyEvent(request[r].body)) =>
      /\ genCalls[r] = <<>>
      /\ sent[r] = <<>>
      /\ pc[r] \in {"routed", "handler", "done"}
      /\ Answered(r) => responses[r] = <<[status |-> 200, json |-> [ok |-> TRUE]]>>

\* an unknown reply carrying the text "generate story" has been answered
\* and nothing was generated or sent
C16_Witness ==
  \E r \in Slots :
    /\ VerifiedInbound(r) /\ Answered(r)
    /\ UnknownReplyEvent(request[r].body)
    /\ request[r].body.reply.id = "OTHER_REQUEST"
    /\ request[r].body.text = Str(TriggerPhrase)
    /\ events[r] = <<"respond">>
    /\ genCalls[r] = <<>>
    /\ sent[r] = <<>>


(***************************************************************************)
(* C17: every signature-verified inbound webhook request runs to           *)
(* completion: provided each generation call and each outbound send        *)
(* eventually settles, the request eventually receives an HTTP response,   *)
(* and exactly one, on every classification and failure path.              *)
(***************************************************************************)
C17_VerifiedInboundAnswered ==
  /\ \A r \in Slots :
       (VerifiedInbound(r) /\ pc[r] = "handler") ~> Answered(r)
  /\ [](\A r \in Slots :
          /\ Len(responses[r]) <= 1
          /\ Answered(r) => Len(responses[r]) = 1)

\* a request whose handler was rejected has received its one response
C17_Witness ==
  \E r \in Slots :
    /\ VerifiedInbound(r) /\ Answered(r)
    /\ error[r] # ""
    /\ Len(responses[r]) = 1
    /\ responses[r][1].status = 500


(***************************************************************************)
(* C18: GET /send-story-request is answered with 200 and the body          *)
(* {message: "Bedtime story prompt sent!"} whether the send of the rich    *)
(* card succeeded or failed: the failure is caught in                      *)
(* sendInitialStoryPrompt, the send is not retried, and the answer is      *)
(* never a 500.                                                            *)
(***************************************************************************)
C18_StoryRequestConfirmsAnyway ==
  \A r \in Slots :
    request[r].route = "GET /send-story-request" =>
      /\ pc[r] # "error"
      /\ error[r] = ""
      /\ Len(sent[r]) <= 1
      /\ Answered(r) =>
           /\ Len(sent[r]) = 1
           /\ sent[r][1].outcome \in {"ok", "failed"}
           /\ responses[r] =
                <<[status |-> 200, json |-> [message |-> "Bedtime story prompt sent!"]]>>

\* a GET /send-story-request whose send failed has been answered with the
\* confirmation
C18_Witness ==
  \E r \in Slots :
    /\ request[r].route = "GET /send-story-request"
    /\ Answered(r)
    /\ events[r] = <<"send:start", "send:failed", "respond">>
    /\ sent[r][1].outcome = "failed"
    /\ responses[r] = <<PromptSent>>

=============================================================================
